---- MODULE Spec2Model ----
(***************************************************************************)
(* A model of the June API client (EnergieID/june).                        *)
(*                                                                         *)
(* Two variants of the client exist in the repository:                     *)
(*   "current"  src/june/june.py  (contracts, devices, measurements,       *)
(*                                 _to_date, get_start_end)                *)
(*   "legacy"   src/june.py       (contracts, get_ids, get_id, devices)    *)
(*                                                                         *)
(* Python strings are modelled as sequences of one-character strings so    *)
(* that formatting and parsing are computed character by character.        *)
(* Python values are tagged records: [t |-> "None"], [t |-> "str", ...].   *)
(***************************************************************************)
EXTENDS Integers, Sequences, FiniteSets, TLC

VARIABLES
    variant,        \* which module the client object was built from
    access_token,   \* June.access_token
    last,           \* the most recent call: operation, arguments, outcome, HTTP requests
    authed,         \* history: has an authenticate call returned normally?
    authTok,        \* history: access_token field of the response of the latest such call
    dateIn,         \* argument of a direct call of June._to_date
    dateOut         \* outcome of that call

vars == <<variant, access_token, last, authed, authTok, dateIn, dateOut>>

(***************************************************************************)
(* Bounds of the model.                                                    *)
(***************************************************************************)
MaxData == 2        \* longest "data" array a response carries
MaxId == 2          \* contract and device ids are 1..MaxId

(***************************************************************************)
(* Python values.                                                          *)
(***************************************************************************)
None == [t |-> "None"]

Str(s) == [t |-> "str", v |-> s]

\* bool(x) for None and str: None and '' are falsy
Truthy(x) == x.t # "None" /\ (x.t = "str" => Len(x.v) > 0)

\* str.format of one argument into the characters of '{}'
FormatArg(x) == IF x.t = "None" THEN <<"N", "o", "n", "e">> ELSE x.v

\* "Bearer {}".format(self.access_token)
BearerHeader(tok) == <<"B", "e", "a", "r", "e", "r", " ">> \o FormatArg(tok)

(***************************************************************************)
(* Calendar arithmetic of datetime.date / datetime.datetime.               *)
(***************************************************************************)
IsLeap(y) == (y % 4 = 0) /\ ((y % 100 # 0) \/ (y % 400 = 0))

DaysInMonth(y, m) ==
    IF m = 2 THEN (IF IsLeap(y) THEN 29 ELSE 28)
    ELSE IF m \in {4, 6, 9, 11} THEN 30 ELSE 31

DaysBeforeYear(y) == (y - 1) * 365 + ((y - 1) \div 4) - ((y - 1) \div 100) + ((y - 1) \div 400)

RECURSIVE DaysBeforeMonth(_, _)
DaysBeforeMonth(y, m) == IF m = 1 THEN 0 ELSE DaysBeforeMonth(y, m - 1) + DaysInMonth(y, m - 1)

\* date.toordinal()
ToOrdinal(y, m, d) == DaysBeforeYear(y) + DaysBeforeMonth(y, m) + d

\* date.fromordinal(n)
FromOrdinal(n) ==
    LET y == CHOOSE yy \in (n \div 366)..((n \div 365) + 1) :
                 DaysBeforeYear(yy) < n /\ n <= DaysBeforeYear(yy + 1)
        r == n - DaysBeforeYear(y)
        m == CHOOSE mm \in 1..12 :
                 DaysBeforeMonth(y, mm) < r /\ r <= DaysBeforeMonth(y, mm) + DaysInMonth(y, mm)
    IN [y |-> y, m |-> m, d |-> r - DaysBeforeMonth(y, m)]

(***************************************************************************)
(* Outcomes of a call: a returned value or a raised exception.             *)
(***************************************************************************)
Return(v) == [kind |-> "return", exc |-> "", value |-> v]

Raise(e) == [kind |-> "raise", exc |-> e, value |-> None]

(***************************************************************************)
(* datetime.datetime.strptime(s, '%Y-%m-%d').  The format compiles to the  *)
(* regular expression                                                      *)
(*   (\d\d\d\d)-(1[0-2]|0[1-9]|[1-9])-(3[0-1]|[1-2]\d|0[1-9]|[1-9]| [1-9]) *)
(* matched at the start of the string; text left after the match, or a     *)
(* day the month does not have, is a ValueError.                           *)
(***************************************************************************)
Digits == <<"0", "1", "2", "3", "4", "5", "6", "7", "8", "9">>

DigitChars == {Digits[i] : i \in 1..Len(Digits)}

NonZero == DigitChars \ {"0"}

\* int() of one character; a blank counts for nothing
DigitVal == [c \in DigitChars \cup {" "} |->
                IF c = " " THEN 0 ELSE (CHOOSE i \in 1..Len(Digits) : Digits[i] = c) - 1]

\* the character at position p, "" past the end
At(s, p) == IF p >= 1 /\ p <= Len(s) THEN s[p] ELSE ""

\* the length the %m group (1[0-2]|0[1-9]|[1-9]) matches on the characters
\* c1 c2 and the "-" after it, alternatives tried in this order; 0: no match
MonthLen(c1, c2, c3) ==
    IF c1 = "1" /\ c2 \in {"0", "1", "2"} /\ c3 = "-" THEN 2
    ELSE IF c1 = "0" /\ c2 \in NonZero /\ c3 = "-" THEN 2
    ELSE IF c1 \in NonZero /\ c2 = "-" THEN 1
    ELSE 0

\* the length the %d group (3[0-1]|[1-2]\d|0[1-9]|[1-9]| [1-9]) matches on the
\* characters c1 c2, alternatives tried in this order; 0: no match
DayLen(c1, c2) ==
    IF c1 = "3" /\ c2 \in {"0", "1"} THEN 2
    ELSE IF c1 \in {"1", "2"} /\ c2 \in DigitChars THEN 2
    ELSE IF c1 = "0" /\ c2 \in NonZero THEN 2
    ELSE IF c1 \in NonZero THEN 1
    ELSE IF c1 = " " /\ c2 \in NonZero THEN 2
    ELSE 0

\* int() of the n characters of s from position p
NumAt(s, p, n) ==
    IF n = 1 THEN DigitVal[s[p]]
    ELSE IF n = 2 THEN DigitVal[s[p]] * 10 + DigitVal[s[p + 1]]
    ELSE DigitVal[s[p]] * 1000 + DigitVal[s[p + 1]] * 100
             + DigitVal[s[p + 2]] * 10 + DigitVal[s[p + 3]]

\* re.match of the compiled format on s: the groups found and where the match ends
RegexMatch(s) ==
    LET ml == MonthLen(At(s, 6), At(s, 7), At(s, 8))
        dl == DayLen(At(s, 7 + ml), At(s, 8 + ml))
    IN IF /\ \A p \in 1..4 : At(s, p) \in DigitChars
          /\ At(s, 5) = "-"
          /\ ml > 0
          /\ dl > 0
       THEN [found |-> TRUE, end |-> 6 + ml + dl,
             y |-> NumAt(s, 1, 4), m |-> NumAt(s, 6, ml), d |-> NumAt(s, 7 + ml, dl)]
       ELSE [found |-> FALSE, end |-> 0, y |-> 0, m |-> 0, d |-> 0]

\* does strptime(s, '%Y-%m-%d') return (TRUE) or raise ValueError (FALSE)?
StrptimeOk(s) ==
    LET f == RegexMatch(s)
    IN /\ f.found
       /\ f.end = Len(s)                  \* else "unconverted data remains"
       /\ f.y >= 1                        \* datetime.MINYEAR
       /\ f.d <= DaysInMonth(f.y, f.m)    \* else "day is out of range for month"

(***************************************************************************)
(* strftime('%Y-%m-%d') for years of four digits.                          *)
(***************************************************************************)
Pad2(n) == <<Digits[(n \div 10) + 1], Digits[(n % 10) + 1]>>

Pad4(n) == Pad2(n \div 100) \o Pad2(n % 100)

Strftime(o) == Pad4(o.y) \o <<"-">> \o Pad2(o.m) \o <<"-">> \o Pad2(o.d)

(***************************************************************************)
(* datetime.astimezone(pytz.UTC): the same instant, expressed in UTC.      *)
(* The offset of tzinfo is in minutes east of UTC.                         *)
(***************************************************************************)
\* the zone is replaced and the clock left as it was
AsTimezoneUTC_Replace(o) == [o EXCEPT !.tzinfo = [t |-> "tz", off |-> 0]]

AsTimezoneUTC(o) ==
    LET total == (ToOrdinal(o.y, o.m, o.d) * 1440) + (o.hh * 60) + o.mi - o.tzinfo.off
        day == total \div 1440
        rem == total % 1440
        c == FromOrdinal(day)
    IN [t |-> "datetime", y |-> c.y, m |-> c.m, d |-> c.d,
        hh |-> rem \div 60, mi |-> rem % 60, tzinfo |-> [t |-> "tz", off |-> 0]]

(***************************************************************************)
(* June._to_date                                                           *)
(***************************************************************************)
HasTzinfo(o) == o.t = "datetime" /\ o.tzinfo.t # "None"

ToDateString(s) == IF StrptimeOk(s) THEN Return(s) ELSE Raise("ValueError")

ToDateObject(o) == Return(Strftime(IF HasTzinfo(o) THEN AsTimezoneUTC(o) ELSE o))

_to_date(date_obj) ==
    IF date_obj.t = "str" THEN ToDateString(date_obj.v) ELSE ToDateObject(date_obj)

(***************************************************************************)
(* The HTTP transport (requests.get / requests.post) and the server.       *)
(* A response is a status and a body; the body is JSON or it is not.       *)
(***************************************************************************)
Request(method, url, urlArg, headers, params, data) ==
    [method |-> method, url |-> url, urlArg |-> urlArg,
     headers |-> headers, params |-> params, data |-> data]

Response(status, isJson, json) == [status |-> status, isJson |-> isJson, json |-> json]

\* only server errors raise
RaisesForStatus_ServerOnly(resp) == resp.status >= 500 /\ resp.status < 600

\* r.raise_for_status(): HTTPError for a 4xx or 5xx status, nothing otherwise
RaisesForStatus(resp) == resp.status >= 400 /\ resp.status < 600

\* r.raise_for_status() followed by r.json()
StatusThenJson(resp) ==
    IF RaisesForStatus(resp) THEN Raise("HTTPError")
    ELSE IF ~resp.isJson THEN Raise("JSONDecodeError")
    ELSE Return(resp.json)

\* what a call did: its outcome, the requests it issued, the responses it got
Result(outcome, reqs, resps) == [outcome |-> outcome, reqs |-> reqs, resps |-> resps]

\* a wrapper that forgets the check
authenticated_NoCheck(tok, result) == result

\* the wrapper of the decorator "authenticated": refuses before func runs
authenticated(tok, result) ==
    IF ~Truthy(tok) THEN Result(Raise("NotAuthenticatedError"), <<>>, <<>>) ELSE result

(***************************************************************************)
(* June.authenticate: the outcome and the value of access_token after it.  *)
(***************************************************************************)
\* a token, once held, is never replaced
StoredToken_KeepHeld(tok, resp) ==
    IF Truthy(tok) THEN tok
    ELSE IF (~(resp.status >= 400 /\ resp.status < 600)) /\ resp.isJson
            /\ "access_token" \in DOMAIN resp.json
         THEN resp.json.access_token
    ELSE tok

\* the attribute is cleared when the exchange fails
StoredToken_ClearOnFailure(tok, resp) ==
    IF (~(resp.status >= 400 /\ resp.status < 600)) /\ resp.isJson
       /\ "access_token" \in DOMAIN resp.json
    THEN resp.json.access_token
    ELSE None

StoredToken(tok, resp) ==
    IF StatusThenJson(resp).kind = "return" /\ "access_token" \in DOMAIN resp.json
    THEN resp.json.access_token
    ELSE tok

authenticate(tok, username, password, resp) ==
    LET req == Request("POST", "oauth/token", None, None, None,
                       [grant_type |-> "password", username |-> username,
                        password |-> password])
        j == StatusThenJson(resp)
        outcome == IF j.kind = "raise" THEN j
                   ELSE IF "access_token" \notin DOMAIN j.value THEN Raise("KeyError")
                   ELSE Return(None)
    IN [outcome |-> outcome, reqs |-> <<req>>, resps |-> <<resp>>,
        access_token |-> StoredToken(tok, resp)]

(***************************************************************************)
(* The operations that fetch data.                                         *)
(***************************************************************************)
AuthHeaders(tok) == [Authorization |-> BearerHeader(tok)]

Fetch(req, resp) == Result(StatusThenJson(resp), <<req>>, <<resp>>)

get_contracts(tok, resp) ==
    authenticated(tok,
        Fetch(Request("GET", "contracts", None, AuthHeaders(tok), None, None), resp))

\* the ids in reverse order
IdsOf_Reversed(data) == [i \in 1..Len(data) |-> data[Len(data) + 1 - i].id]

\* [contract['id'] for contract in contracts['data']]
IdsOf(data) == [i \in 1..Len(data) |-> data[i].id]

\* get_contract_ids (current) and get_ids (legacy) have the same body
get_contract_ids(tok, resp) ==
    LET r == get_contracts(tok, resp)
    IN IF r.outcome.kind = "raise" THEN r
       ELSE IF "data" \notin DOMAIN r.outcome.value
            THEN Result(Raise("KeyError"), r.reqs, r.resps)
       ELSE Result(Return(IdsOf(r.outcome.value.data)), r.reqs, r.resps)

get_ids(tok, resp) == get_contract_ids(tok, resp)

\* len(ids) >= 1
SingleId_AtLeastOne(ids) == Len(ids) >= 1

\* len(ids) == 1
SingleId(ids) == Len(ids) = 1

get_id(tok, resp) ==
    LET r == get_ids(tok, resp)
    IN IF r.outcome.kind = "raise" THEN r
       ELSE IF SingleId(r.outcome.value)
            THEN Result(Return(r.outcome.value[1]), r.reqs, r.resps)
       ELSE Result(Raise("MultipleIdError"), r.reqs, r.resps)

\* current: 'contracts/{}/devices'; legacy: 'devices/{}'
DevicesUrl(v) == IF v = "legacy" THEN "devices/{}" ELSE "contracts/{}/devices"

get_devices(v, tok, contract_id, resp) ==
    authenticated(tok,
        Fetch(Request("GET", DevicesUrl(v), contract_id, AuthHeaders(tok), None, None), resp))

\* the request goes out before the dates are checked
MeasurementsBody_FetchFirst(tok, device_id, period, start, end, resp) ==
    LET s == _to_date(start)
        e == _to_date(end)
        req == Request("GET", "devices/{}/measures", device_id,
                       [Authorization |-> BearerHeader(tok)],
                       [period |-> period, start |-> start, end |-> end], None)
    IN IF s.kind = "raise" THEN [outcome |-> s, reqs |-> <<req>>, resps |-> <<resp>>]
       ELSE IF e.kind = "raise" THEN [outcome |-> e, reqs |-> <<req>>, resps |-> <<resp>>]
       ELSE [outcome |-> StatusThenJson(resp), reqs |-> <<req>>, resps |-> <<resp>>]

\* the body of get_measurements, run once the gate has let the call through
MeasurementsBody(tok, device_id, period, start, end, resp) ==
    LET s == _to_date(start)
        e == _to_date(end)
    IN IF s.kind = "raise" THEN Result(s, <<>>, <<>>)
       ELSE IF e.kind = "raise" THEN Result(e, <<>>, <<>>)
       ELSE Fetch(Request("GET", "devices/{}/measures", device_id, AuthHeaders(tok),
                          [period |-> period, start |-> s.value, end |-> e.value], None),
                  resp)

get_measurements(tok, device_id, period, start, end, resp) ==
    authenticated(tok, MeasurementsBody(tok, device_id, period, start, end, resp))

\* the table built from the points: one row per point, indexed by its start
DataFrame(points) ==
    [index |-> [i \in 1..Len(points) |-> points[i].attributes.start],
     rows |-> [i \in 1..Len(points) |-> points[i].attributes]]

get_measurements_dataframe(tok, device_id, period, start, end, resp) ==
    LET r == get_measurements(tok, device_id, period, start, end, resp)
    IN IF r.outcome.kind = "raise" THEN r
       ELSE IF "data" \notin DOMAIN r.outcome.value
            THEN Result(Raise("KeyError"), r.reqs, r.resps)
       ELSE IF Len(r.outcome.value.data) = 0       \* no column "start"
            THEN Result(Raise("AttributeError"), r.reqs, r.resps)
       ELSE Result(Return(DataFrame(r.outcome.value.data)), r.reqs, r.resps)

(***************************************************************************)
(* dateutil.parser.parse on what the API emits for a timestamp: a date     *)
(* string parses to a datetime, null is a TypeError, other text an error.  *)
(***************************************************************************)
DateutilParse(x) ==
    IF x.t = "None" THEN Raise("TypeError")
    ELSE IF ~StrptimeOk(x.v) THEN Raise("ParserError")
    ELSE LET f == RegexMatch(x.v)
         IN Return([t |-> "datetime", y |-> f.y, m |-> f.m, d |-> f.d,
                    hh |-> 0, mi |-> 0, tzinfo |-> None])

\* the last entry with the id instead of the first
FirstDevice_Last(data, device_id) ==
    IF \E i \in 1..Len(data) : data[i].id = device_id
    THEN CHOOSE i \in 1..Len(data) :
             data[i].id = device_id /\ \A j \in (i + 1)..Len(data) : data[j].id # device_id
    ELSE 0

\* the index of the entry at which the for loop returns (0: the loop runs out)
FirstDevice(data, device_id) ==
    IF \E i \in 1..Len(data) : data[i].id = device_id
    THEN CHOOSE i \in 1..Len(data) :
             data[i].id = device_id /\ \A j \in 1..(i - 1) : data[j].id # device_id
    ELSE 0

get_start_end(tok, contract_id, device_id, resp) ==
    LET r == get_devices("current", tok, contract_id, resp)
    IN IF r.outcome.kind = "raise" THEN r
       ELSE IF "data" \notin DOMAIN r.outcome.value
            THEN Result(Raise("KeyError"), r.reqs, r.resps)
       ELSE LET data == r.outcome.value.data
                i == FirstDevice(data, device_id)
                start == DateutilParse(data[i].attributes.created_at)
                end == DateutilParse(data[i].attributes.last_image_date)
            IN IF i = 0 THEN Result(Return(<<None, None>>), r.reqs, r.resps)
               ELSE IF start.kind = "raise" THEN Result(start, r.reqs, r.resps)
               ELSE IF end.kind = "raise" THEN Result(end, r.reqs, r.resps)
               ELSE Result(Return(<<start.value, end.value>>), r.reqs, r.resps)

(***************************************************************************)
(* The inputs the callers and the server choose among.                     *)
(***************************************************************************)
SeqsUpTo(S, n) == UNION {[1..k -> S] : k \in 0..n}

Ids == 1..MaxId

\* the constructor's access_token argument
CtorTokens == {None, Str(<<>>), Str(<<"c">>)}

\* the access_token values the token endpoint hands out
ServerTokens == {Str(<<>>), Str(<<"a">>), Str(<<"b">>)}

Users == {"alice"}

Passwords == {"secret"}

\* what the server may answer: every body under 200, and under each other
\* status a body that is no JSON and one that is
OtherStatuses == {201, 300, 404, 503}

Responses(jsons, sample) ==
    {Response(200, FALSE, None)}
        \cup {Response(200, TRUE, j) : j \in jsons}
        \cup {Response(st, FALSE, None) : st \in OtherStatuses}
        \cup {Response(st, TRUE, sample) : st \in OtherStatuses}

AuthResponses ==
    Responses({[error |-> "invalid_grant"]} \cup {[access_token |-> t] : t \in ServerTokens},
              [access_token |-> Str(<<"b">>)])

ContractsResponses ==
    Responses({[message |-> "no data"]}
                  \cup {[data |-> l] : l \in SeqsUpTo({[id |-> i] : i \in Ids}, MaxData)},
              [data |-> <<[id |-> 1]>>])

Timestamp(y, m, d) == Str(Strftime([y |-> y, m |-> m, d |-> d]))

Device(id, created_at, last_image_date) ==
    [id |-> id, attributes |-> [created_at |-> created_at,
                                last_image_date |-> last_image_date]]

\* one device per id, the one of the highest id without an image yet (null),
\* and a second entry for id 1
Devices ==
    {Device(i, Timestamp(2019, 5, i),
            IF i = MaxId THEN None ELSE Timestamp(2021, 12, 31)) : i \in Ids}
        \cup {Device(1, Timestamp(2020, 2, 29), Timestamp(2021, 1, 1))}

DevicesResponses ==
    Responses({[message |-> "no data"]} \cup {[data |-> l] : l \in SeqsUpTo(Devices, MaxData)},
              [data |-> <<Device(1, Timestamp(2019, 5, 1), Timestamp(2021, 12, 31))>>])

Point(d) == [attributes |-> [start |-> Timestamp(2020, 1, d), value |-> d]]

MeasurementsResponses ==
    Responses({[message |-> "no data"]}
                  \cup {[data |-> [i \in 1..k |-> Point(14 + i)]] : k \in 0..MaxData},
              [data |-> <<Point(15)>>])

Date(y, m, d) == [t |-> "date", y |-> y, m |-> m, d |-> d]

DateTime(y, m, d, hh, mi, tzinfo) ==
    [t |-> "datetime", y |-> y, m |-> m, d |-> d, hh |-> hh, mi |-> mi, tzinfo |-> tzinfo]

Tz(off) == [t |-> "tz", off |-> off]

GoodStart == Str(<<"2", "0", "2", "0", "-", "0", "1", "-", "1", "5">>)

GoodEnd == Str(<<"2", "0", "2", "0", "-", "0", "2", "-", "0", "1">>)

StartArgs ==
    { GoodStart,
      Str(<<"1", "5", "-", "0", "1", "-", "2", "0", "2", "0">>),
      Str(<<"2", "0", "2", "0", "-", "1", "-", "5">>),
      Date(2020, 1, 15),
      DateTime(2020, 1, 15, 1, 0, Tz(120)) }

EndArgs ==
    { GoodEnd,
      Str(<<"2", "0", "2", "0", "-", "0", "2", "-", "3", "0">>),
      DateTime(2020, 2, 1, 23, 30, None) }

\* (device_id, period, start, end): every start, every end, every period
MeasurementArgs ==
    {<<1, 0, s, GoodEnd>> : s \in StartArgs}
        \cup {<<2, 3, GoodStart, e>> : e \in EndArgs}
        \cup {<<2, p, Date(2020, 1, 15), DateTime(2020, 2, 1, 23, 30, None)>> : p \in 0..3}

DataframeArgs ==
    {<<1, 0, s, GoodEnd>> : s \in {GoodStart, Str(<<"2", "0", "2", "0">>)}}

(***************************************************************************)
(* The client as a state machine: one action per public method.            *)
(***************************************************************************)
NotCalled == [kind |-> "none", exc |-> "", value |-> None]

Call(op, args, r) ==
    [op |-> op, args |-> args, outcome |-> r.outcome, reqs |-> r.reqs, resps |-> r.resps]

\* June.__init__
Init ==
    /\ variant \in {"current", "legacy"}
    /\ access_token \in CtorTokens
    /\ last = Call("__init__", <<>>, Result(Return(None), <<>>, <<>>))
    /\ authed = FALSE
    /\ authTok = None
    /\ dateIn = None
    /\ dateOut = NotCalled

Authenticate ==
    \E u \in Users, p \in Passwords, resp \in AuthResponses :
        LET r == authenticate(access_token, u, p, resp)
            ok == r.outcome.kind = "return"
        IN /\ last' = Call("authenticate", <<u, p>>, r)
           /\ access_token' = r.access_token
           /\ authed' = (authed \/ ok)
           /\ authTok' = IF ok THEN resp.json.access_token ELSE authTok
           /\ UNCHANGED <<variant, dateIn, dateOut>>

\* the methods that fetch data assign no attribute of the client
Fetched(op, args, r) ==
    /\ last' = Call(op, args, r)
    /\ UNCHANGED <<variant, access_token, authed, authTok, dateIn, dateOut>>

GetContracts ==
    \E resp \in ContractsResponses :
        Fetched("get_contracts", <<>>, get_contracts(access_token, resp))

GetContractIds ==
    /\ variant = "current"
    /\ \E resp \in ContractsResponses :
           Fetched("get_contract_ids", <<>>, get_contract_ids(access_token, resp))

GetIds ==
    /\ variant = "legacy"
    /\ \E resp \in ContractsResponses :
           Fetched("get_ids", <<>>, get_ids(access_token, resp))

GetId ==
    /\ variant = "legacy"
    /\ \E resp \in ContractsResponses :
           Fetched("get_id", <<>>, get_id(access_token, resp))

GetDevices ==
    \E id \in {1}, resp \in DevicesResponses :
        Fetched("get_devices", <<id>>, get_devices(variant, access_token, id, resp))

GetMeasurements ==
    /\ variant = "current"
    /\ \E a \in MeasurementArgs, resp \in MeasurementsResponses :
           Fetched("get_measurements", a,
                   get_measurements(access_token, a[1], a[2], a[3], a[4], resp))

GetMeasurementsDataframe ==
    /\ variant = "current"
    /\ \E a \in DataframeArgs, resp \in MeasurementsResponses :
           Fetched("get_measurements_dataframe", a,
                   get_measurements_dataframe(access_token, a[1], a[2], a[3], a[4], resp))

GetStartEnd ==
    /\ variant = "current"
    /\ \E c \in {1}, d \in Ids, resp \in DevicesResponses :
           Fetched("get_start_end", <<c, d>>, get_start_end(access_token, c, d, resp))

Next ==
    \/ Authenticate
    \/ GetContracts
    \/ GetContractIds
    \/ GetIds
    \/ GetId
    \/ GetDevices
    \/ GetMeasurements
    \/ GetMeasurementsDataframe
    \/ GetStartEnd

Spec == Init /\ [][Next]_vars

(***************************************************************************)
(* June._to_date called on its own (it is a static method): the argument   *)
(* is drawn from date strings, dates, and naive and aware datetimes.       *)
(***************************************************************************)
YearTexts == {<<"2", "0", "2", "0">>, <<"2", "0", "2", "1">>, <<"2", "0", "2">>,
              <<"0", "0", "0", "0">>}

MonthTexts == {<<"0", "1">>, <<"1">>, <<"0", "2">>, <<"2">>, <<"1", "2">>, <<"1", "3">>,
               <<"0", "0">>}

DayTexts == {<<"0", "5">>, <<"5">>, <<" ", "5">>, <<"2", "9">>, <<"3", "0">>, <<"3", "1">>,
             <<"3", "2">>, <<"0", "1", "5">>, <<"5", " ">>}

DateStrings ==
    {Str(y \o <<"-">> \o m \o <<"-">> \o d) : y \in YearTexts, m \in MonthTexts, d \in DayTexts}
        \cup {Str(<<"1", "5", "-", "0", "1", "-", "2", "0", "2", "0">>),
              Str(<<"2", "0", "2", "0", "/", "0", "1", "/", "1", "5">>),
              Str(<<"2", "0", "2", "0", "0", "1", "1", "5">>),
              Str(<<>>)}

CalendarDays ==
    {<<2019, 12, 31>>, <<2020, 1, 1>>, <<2020, 1, 15>>, <<2020, 2, 28>>, <<2020, 2, 29>>,
     <<2020, 3, 1>>, <<2021, 2, 28>>, <<2021, 3, 1>>}

ClockTimes == {<<0, 0>>, <<1, 0>>, <<9, 59>>, <<12, 0>>, <<23, 0>>, <<23, 59>>}

\* minutes east of UTC
Offsets == {-720, -570, -60, 0, 60, 120, 330, 840}

DateObjects ==
    {Date(c[1], c[2], c[3]) : c \in CalendarDays}
        \cup {DateTime(c[1], c[2], c[3], k[1], k[2], None) : c \in CalendarDays, k \in ClockTimes}
        \cup {DateTime(c[1], c[2], c[3], k[1], k[2], Tz(off)) :
                  c \in CalendarDays, k \in ClockTimes, off \in Offsets}

InitToDate ==
    /\ variant = "current"
    /\ access_token = None
    /\ last = Call("__init__", <<>>, Result(Return(None), <<>>, <<>>))
    /\ authed = FALSE
    /\ authTok = None
    /\ dateIn \in DateStrings \cup DateObjects
    /\ dateOut = NotCalled

ToDate ==
    /\ dateOut = NotCalled
    /\ dateOut' = _to_date(dateIn)
    /\ UNCHANGED <<variant, access_token, last, authed, authTok, dateIn>>

SpecToDate == InitToDate /\ [][ToDate]_vars

(***************************************************************************)
(* Properties.                                                             *)
(***************************************************************************)
FetchOps == {"get_contracts", "get_contract_ids", "get_ids", "get_id", "get_devices",
             "get_measurements", "get_measurements_dataframe", "get_start_end"}

\* the last call got one response, which carried a JSON object with "data"
GotData ==
    /\ Len(last.resps) = 1
    /\ last.resps[1].status < 400
    /\ last.resps[1].isJson
    /\ "data" \in DOMAIN last.resps[1].json

BadDateText == Str(<<"1", "5", "-", "0", "1", "-", "2", "0", "2", "0">>)

\* C1: a data-fetching operation called while access_token is None or empty
\* fails with NotAuthenticatedError and has issued no HTTP request, whatever
\* its arguments (a malformed date string included).
C1_GateBeforeAnything ==
    (last.op \in FetchOps /\ ~Truthy(access_token))
        => (last.outcome = Raise("NotAuthenticatedError") /\ last.reqs = <<>>)

C1_Witness ==
    /\ last.op = "get_measurements"
    /\ ~Truthy(access_token)
    /\ last.args[3] = BadDateText
    /\ last.outcome.exc = "NotAuthenticatedError"

\* C2: once an authenticate has returned, every request a data-fetching
\* operation issues carries Authorization: "Bearer " followed by exactly the
\* access_token of the response of the most recent such authenticate.
C2_BearerIsLatestToken ==
    (authed /\ last.op \in FetchOps)
        => \A i \in 1..Len(last.reqs) :
               last.reqs[i].headers
                   = [Authorization |-> <<"B", "e", "a", "r", "e", "r", " ">> \o authTok.v]

C2_Witness ==
    /\ authed
    /\ last.op = "get_measurements"
    /\ Len(last.reqs) = 1
    /\ authTok = Str(<<"a">>)

\* C3 as stated: whenever the response has a status outside 200..299, the
\* operation ends in an error and has issued exactly one request.
C3_AnyNon2xxIsError ==
    (Len(last.resps) >= 1 /\ ~(last.resps[1].status \in 200..299))
        => (last.outcome.kind = "raise" /\ Len(last.reqs) = 1)

\* C3 amended: whenever the response has a 4xx or 5xx status, the operation
\* (authenticate, a fetch, or an operation derived from one) ends in HTTPError,
\* returns nothing, and has issued exactly one request.
C3_ErrorStatusIsHTTPError ==
    (Len(last.resps) >= 1 /\ last.resps[1].status \in 400..599)
        => (last.outcome = Raise("HTTPError") /\ Len(last.reqs) = 1 /\ Len(last.resps) = 1)

C3_Witness ==
    /\ last.op = "get_start_end"
    /\ Len(last.resps) = 1
    /\ last.resps[1].status = 404
    /\ last.outcome.exc = "HTTPError"

\* C4 as stated: when NotAuthenticatedError, MultipleIdError or the date
\* ValueError is raised, the failing operation has issued no HTTP request.
C4_LocalErrorsBeforeNetwork ==
    (last.outcome.exc \in {"NotAuthenticatedError", "MultipleIdError", "ValueError"})
        => last.reqs = <<>>

\* C4 amended: NotAuthenticatedError and the date ValueError are raised with no
\* HTTP request issued; MultipleIdError is raised by get_id after its one
\* request (GET contracts) has been answered, and no request follows it.
C4_LocalErrorsAndNetwork ==
    /\ (last.outcome.exc \in {"NotAuthenticatedError", "ValueError"}) => last.reqs = <<>>
    /\ (last.outcome.exc = "MultipleIdError")
           => (last.op = "get_id" /\ Len(last.reqs) = 1 /\ last.reqs[1].url = "contracts"
               /\ GotData)

C4_Witness ==
    /\ last.op = "get_measurements"
    /\ Truthy(access_token)
    /\ last.args[3] = BadDateText
    /\ last.outcome.exc = "ValueError"
    /\ last.reqs = <<>>

\* is s exactly yyyy-mm-dd: ten characters, digits and dashes in place, and a
\* date of the calendar?
IsYyyyMmDd(s) ==
    /\ Len(s) = 10
    /\ \A p \in {1, 2, 3, 4, 6, 7, 9, 10} : s[p] \in DigitChars
    /\ s[5] = "-"
    /\ s[8] = "-"
    /\ LET y == NumAt(s, 1, 4)
           m == NumAt(s, 6, 2)
           d == NumAt(s, 9, 2)
       IN y >= 1 /\ m \in 1..12 /\ d >= 1 /\ d <= DaysInMonth(y, m)

\* C5: _to_date on a string returns it unchanged when it is exactly of the
\* form yyyy-mm-dd, and raises for every other string (so no string that is
\* not of that form is ever returned).
C5_OnlyYyyyMmDdPasses ==
    (dateOut # NotCalled /\ dateIn.t = "str")
        => IF IsYyyyMmDd(dateIn.v) THEN dateOut = Return(dateIn.v)
           ELSE dateOut.kind = "raise"

\* the day before and the day after a calendar day
PrevDay(o) ==
    IF o.d > 1 THEN [o EXCEPT !.d = o.d - 1]
    ELSE IF o.m > 1 THEN [o EXCEPT !.m = o.m - 1, !.d = DaysInMonth(o.y, o.m - 1)]
    ELSE [o EXCEPT !.y = o.y - 1, !.m = 12, !.d = 31]

NextDay(o) ==
    IF o.d < DaysInMonth(o.y, o.m) THEN [o EXCEPT !.d = o.d + 1]
    ELSE IF o.m < 12 THEN [o EXCEPT !.m = o.m + 1, !.d = 1]
    ELSE [o EXCEPT !.y = o.y + 1, !.m = 1, !.d = 1]

\* the UTC calendar day of an aware datetime
UtcDay(o) ==
    LET minutes == (o.hh * 60) + o.mi - o.tzinfo.off
    IN IF minutes < 0 THEN PrevDay(o)
       ELSE IF minutes >= 1440 THEN NextDay(o)
       ELSE o

\* C6: _to_date on an aware datetime returns the yyyy-mm-dd of its instant in
\* UTC (the same day, the day before or the day after the local one); on a
\* naive datetime or a date it formats the value's own fields.
C6_AwareIsFormattedInUTC ==
    (dateOut # NotCalled /\ dateIn.t # "str")
        => IF dateIn.t = "datetime" /\ dateIn.tzinfo # None
           THEN dateOut = Return(Strftime(UtcDay(dateIn)))
           ELSE dateOut = Return(Strftime(dateIn))

C6_Witness ==
    /\ dateIn = DateTime(2020, 1, 15, 1, 0, Tz(120))
    /\ dateOut = Return(<<"2", "0", "2", "0", "-", "0", "1", "-", "1", "4">>)

\* the datetime that a timestamp text of the API denotes
Denoted(x) ==
    CHOOSE o \in {DateTime(y, m, d, 0, 0, None) : y \in 2019..2021, m \in 1..12, d \in 1..31} :
        Str(Strftime(o)) = x

\* C7: when the device list arrives, get_start_end returns (None, None) if no
\* entry has the id, and otherwise the parsed created_at and last_image_date
\* of the first entry with the id, never those of another entry.
C7_FirstDeviceOrNone ==
    (last.op = "get_start_end" /\ GotData)
        => LET data == last.resps[1].json.data
               id == last.args[2]
               hits == {i \in 1..Len(data) : data[i].id = id}
               first == CHOOSE i \in hits : \A j \in hits : i <= j
               a == data[first].attributes
           IN IF hits = {} THEN last.outcome = Return(<<None, None>>)
              ELSE /\ (a.created_at # None /\ a.last_image_date # None)
                          => last.outcome.kind = "return"
                   /\ last.outcome.kind = "return"
                          => last.outcome.value
                                 = <<Denoted(a.created_at), Denoted(a.last_image_date)>>

C7_Witness ==
    /\ last.op = "get_start_end"
    /\ GotData
    /\ last.args[2] = 1
    /\ last.resps[1].json.data
           = <<Device(1, Timestamp(2020, 2, 29), Timestamp(2021, 1, 1)),
               Device(1, Timestamp(2019, 5, 1), Timestamp(2021, 12, 31))>>
    /\ last.outcome
           = Return(<<DateTime(2020, 2, 29, 0, 0, None), DateTime(2021, 1, 1, 0, 0, None)>>)

\* C8: when the contracts arrive, get_id returns an id if and only if there is
\* exactly one contract, and then that contract's id; with none or with
\* several it raises MultipleIdError.
C8_SingleIdOrError ==
    (last.op = "get_id" /\ GotData)
        => LET data == last.resps[1].json.data
           IN IF Len(data) = 1 THEN last.outcome = Return(data[1].id)
              ELSE last.outcome = Raise("MultipleIdError")

C8_Witness ==
    /\ last.op = "get_id"
    /\ GotData
    /\ Len(last.resps[1].json.data) = 2
    /\ last.outcome.exc = "MultipleIdError"

\* C9: when the contracts arrive, get_contract_ids / get_ids returns the id of
\* every entry of data, in order, duplicates kept (the empty list for no entry).
C9_IdsInOrder ==
    (last.op \in {"get_contract_ids", "get_ids"} /\ GotData)
        => LET data == last.resps[1].json.data
           IN /\ last.outcome.kind = "return"
              /\ Len(last.outcome.value) = Len(data)
              /\ \A i \in 1..Len(data) : last.outcome.value[i] = data[i].id

C9_Witness ==
    /\ last.op = "get_contract_ids"
    /\ GotData
    /\ last.outcome = Return(<<2, 1>>)

\* C10: access_token changes only in a step that is an authenticate which
\* returns normally; every other step (a fetch, a failed authenticate) leaves
\* it as it was.
C10_TokenChangesOnlyAtAuthenticate ==
    [][access_token' # access_token
           => (last'.op = "authenticate" /\ last'.outcome.kind = "return")]_vars

C10_Witness ==
    /\ last.op = "authenticate"
    /\ last.outcome.kind = "raise"
    /\ authed
    /\ access_token = Str(<<"a">>)

====
